---- MODULE Spec2Model ----
(***************************************************************************)
(* A model of curl-rs: the key-event loop of App::run (src/main.rs), the    *)
(* focus and tab cycling of InputMode / State, the routing of key presses   *)
(* into the URI and payload text areas, and the validators of Editor.       *)
(*                                                                          *)
(* Text is a sequence of one-character strings.  A text area is a record    *)
(* [lines, cursor, block]: lines is a non-empty sequence of texts, cursor   *)
(* is <<row, col>> (0-based, as in tui_textarea), block is the border       *)
(* colour the last rendering pass gave it.                                  *)
(***************************************************************************)
EXTENDS Integers, Sequences, FiniteSets, TLC

VARIABLES
    input_mode,       \* State.input_mode
    req_tab_index,    \* State.req_tab_index
    main_index,       \* State.main_index
    payload_titles,   \* State.payload_titles
    uri_editor,       \* App.uri_editor
    payload_editors,  \* App.payload_editors
    pc,               \* position in App::run: "draw", "read", "handle", "done"
    event,            \* the event returned by event::read() in this iteration
    tab_kind,         \* Tab harness: which enum ("InputMode" / "AppMode")
    tab_trace,        \* Tab harness: the values visited, first to last
    tab_ops,          \* Tab harness: the calls made ("next" / "previous")
    nav_trace,        \* tab-index harness: the indices visited
    nav_ops,          \* tab-index harness: the calls made
    snap,             \* focus probe: <<the state recorded>> before a run of Shift+Down/Up
    snap_left,        \* focus probe: the recorded mode has been left since
    script,           \* scripted run: the key presses still to be delivered
    typed,            \* scripted run: the key presses handled so far
    uri_valid,        \* validator harness: <<result of validate_uri>>, <<>> before the call
    goal              \* reach harness: <<the state left and the state aimed at>>, <<>> before

appVars == <<input_mode, req_tab_index, main_index, payload_titles,
             uri_editor, payload_editors, pc, event>>
tabVars == <<tab_kind, tab_trace, tab_ops>>
navVars == <<nav_trace, nav_ops>>
probeVars == <<snap, snap_left>>
scriptVars == <<script, typed>>
reachVars == <<goal>>
vars == <<appVars, tabVars, navVars, probeVars, scriptVars, uri_valid, reachVars>>

----------------------------------------------------------------------------
(* Bounds of the model. *)

\* The free-running loop stops typing once the three fields hold this many
\* characters (line breaks included) in total.
MaxText == 2
\* Calls made by the Tab harness.
MaxTabOps == 4
\* Largest tab count the tab-index harness draws, and calls it makes.
MaxTabs == 4
MaxNavOps == 5

----------------------------------------------------------------------------
(* Sequence helpers. *)

Min(a, b) == IF a < b THEN a ELSE b

\* s with x inserted so that it becomes element i+1 (String::insert at index i)
InsertAt(s, i, x) == SubSeq(s, 1, i) \o <<x>> \o SubSeq(s, i + 1, Len(s))

\* s without its element i (1-based)
RemoveAt(s, i) == SubSeq(s, 1, i - 1) \o SubSeq(s, i + 1, Len(s))

RECURSIVE JoinLines(_, _)
JoinLines(lines, sep) ==
    IF Len(lines) = 0 THEN <<>>
    ELSE IF Len(lines) = 1 THEN lines[1]
    ELSE lines[1] \o sep \o JoinLines(Tail(lines), sep)

----------------------------------------------------------------------------
(* InputMode (src/main.rs 22-50, the same code as models.rs 36-64) and      *)
(* AppMode (models.rs 8-34).                                                *)

InputModes == {"UriEditing", "Normal", "PayloadEditing"}
AppModes == {"Request", "Response"}

\* *self as u8
InputMode_as_int(m) ==
    CASE m = "UriEditing" -> 0
      [] m = "Normal" -> 1
      [] m = "PayloadEditing" -> 2

InputMode_to_enum(num) ==
    CASE num = 0 -> "UriEditing"
      [] num = 1 -> "Normal"
      [] num = 2 -> "PayloadEditing"
      [] OTHER -> "Normal"

\* next() with the modulus forgotten: PayloadEditing falls to the catch-all arm
InputMode_next_no_modulus(m) == InputMode_to_enum((InputMode_as_int(m) + 1) % 256)

InputMode_next(m) == InputMode_to_enum(((InputMode_as_int(m) + 1) % 256) % 3)

\* previous() written as a copy of next(), as AppMode::previous is
InputMode_previous_as_next(m) == InputMode_next(m)

InputMode_previous(m) == InputMode_to_enum(((InputMode_as_int(m) + 2) % 256) % 3)

AppMode_as_int(m) ==
    CASE m = "Request" -> 0
      [] m = "Response" -> 1

AppMode_to_enum(num) ==
    CASE num = 0 -> "Request"
      [] num = 1 -> "Response"
      [] OTHER -> "Request"

AppMode_next(m) == AppMode_to_enum(((AppMode_as_int(m) + 1) % 256) % 2)

AppMode_previous(m) == AppMode_next(m)

----------------------------------------------------------------------------
(* State (src/main.rs 57-85).                                               *)

\* next_payload with the modulus forgotten
next_payload_no_wrap(index, titles) == index + 1

\* the new req_tab_index after State::next_payload
next_payload(index, titles) == (index + 1) % Len(titles)

\* previous_payload that stops at zero instead of wrapping
previous_payload_no_wrap(index, titles) ==
    IF index > 0 THEN index - 1 ELSE 0

\* the new req_tab_index after State::previous_payload
previous_payload(index, titles) ==
    IF index > 0 THEN index - 1 ELSE Len(titles) - 1

----------------------------------------------------------------------------
(* TextArea (tui_textarea), as far as App::run uses it: the content, the    *)
(* cursor, and what input() does with a key under the default key           *)
(* mappings.                                                                *)

\* TextArea::default(): one empty line, cursor at its head, no block
TextArea_default == [lines |-> << <<>> >>, cursor |-> <<0, 0>>, block |-> "none"]

\* Editor::default(title)
Editor_default(title) == [title |-> title, text_area |-> TextArea_default]

\* Editor::text: lines().join("\n")
text(editor) == JoinLines(editor.text_area.lines, <<"\n">>)

Row(ta) == ta.cursor[1]
Col(ta) == ta.cursor[2]
\* the line under the cursor (lines is 0-indexed in the source)
CurLine(ta) == ta.lines[Row(ta) + 1]

insert_char(ta, c) ==
    [ta EXCEPT !.lines[Row(ta) + 1] = InsertAt(CurLine(ta), Col(ta), c),
               !.cursor = <<Row(ta), Col(ta) + 1>>]

insert_newline(ta) ==
    LET line == CurLine(ta)
        head == SubSeq(line, 1, Col(ta))
        rest == SubSeq(line, Col(ta) + 1, Len(line))
    IN [ta EXCEPT !.lines = SubSeq(ta.lines, 1, Row(ta)) \o <<head, rest>>
                            \o SubSeq(ta.lines, Row(ta) + 2, Len(ta.lines)),
                  !.cursor = <<Row(ta) + 1, 0>>]

\* Backspace: the character before the cursor, or at the head of a line the
\* line break before it; nothing at the start of the buffer
delete_char(ta) ==
    IF Col(ta) > 0
    THEN [ta EXCEPT !.lines[Row(ta) + 1] = RemoveAt(CurLine(ta), Col(ta)),
                    !.cursor = <<Row(ta), Col(ta) - 1>>]
    ELSE IF Row(ta) = 0 THEN ta
    ELSE LET prev == ta.lines[Row(ta)]
         IN [ta EXCEPT !.lines = SubSeq(ta.lines, 1, Row(ta) - 1)
                                 \o <<prev \o CurLine(ta)>>
                                 \o SubSeq(ta.lines, Row(ta) + 2, Len(ta.lines)),
                       !.cursor = <<Row(ta) - 1, Len(prev)>>]

\* CursorMove::{Forward, Back, Up, Down, Head}
move_cursor(ta, m) ==
    LET r == Row(ta)
        c == Col(ta)
        n == Len(ta.lines)
    IN CASE m = "Forward" ->
               IF c >= Len(CurLine(ta))
               THEN (IF r + 1 < n THEN [ta EXCEPT !.cursor = <<r + 1, 0>>] ELSE ta)
               ELSE [ta EXCEPT !.cursor = <<r, c + 1>>]
         [] m = "Back" ->
               IF c = 0
               THEN (IF r > 0 THEN [ta EXCEPT !.cursor = <<r - 1, Len(ta.lines[r])>>]
                     ELSE ta)
               ELSE [ta EXCEPT !.cursor = <<r, c - 1>>]
         [] m = "Up" ->
               IF r > 0
               THEN [ta EXCEPT !.cursor = <<r - 1, Min(c, Len(ta.lines[r]))>>]
               ELSE ta
         [] m = "Down" ->
               IF r + 1 < n
               THEN [ta EXCEPT !.cursor = <<r + 1, Min(c, Len(ta.lines[r + 2]))>>]
               ELSE ta
         [] m = "Head" -> [ta EXCEPT !.cursor = <<r, 0>>]

----------------------------------------------------------------------------
(* Editor::validate_uri and Editor::validate_json (src/main.rs 104-115).    *)

\* char::is_whitespace / the regex class \s, over the characters of the model
Whitespace == {" ", "\t", "\n", "\r", "\f"}

\* the character of s at position i (1-based), "" past either end
At(s, i) == IF i >= 1 /\ i <= Len(s) THEN s[i] ELSE ""

StartsWith(s, p) == Len(s) >= Len(p) /\ SubSeq(s, 1, Len(p)) = p

RECURSIVE trim_start(_)
trim_start(s) ==
    IF Len(s) > 0 /\ s[1] \in Whitespace THEN trim_start(Tail(s)) ELSE s

RECURSIVE trim_end(_)
trim_end(s) ==
    IF Len(s) > 0 /\ s[Len(s)] \in Whitespace
    THEN trim_end(SubSeq(s, 1, Len(s) - 1))
    ELSE s

\* str::trim
trim(s) == trim_end(trim_start(s))

\* the alternatives of (https?|ftp)
UrlSchemes == { <<"h","t","t","p">>, <<"h","t","t","p","s">>, <<"f","t","p">> }

\* the pattern without its "^": a match may start anywhere in the text
url_pattern_unanchored(t) ==
    \E from \in 1..(Len(t) + 1) : \E sch \in UrlSchemes :
        LET u == SubSeq(t, from, Len(t))
            p == sch \o <<":", "/", "/">>
            r == SubSeq(u, Len(p) + 1, Len(u))
        IN /\ StartsWith(u, p)
           /\ Len(r) >= 2
           /\ r[1] \notin (Whitespace \cup {"/", "$", ".", "?", "#"})
           /\ r[2] # "\n"
           /\ \A i \in 3..Len(r) : r[i] \notin Whitespace

\* Regex::is_match for ^(https?|ftp):\/\/[^\s/$.?#].[^\s]*$ : after "://" one
\* character outside the class, then "." (any character but a line feed),
\* then characters that are not whitespace, up to the end of the text
url_pattern_is_match(t) ==
    \E sch \in UrlSchemes :
        LET p == sch \o <<":", "/", "/">>
            r == SubSeq(t, Len(p) + 1, Len(t))
        IN /\ StartsWith(t, p)
           /\ Len(r) >= 2
           /\ r[1] \notin (Whitespace \cup {"/", "$", ".", "?", "#"})
           /\ r[2] # "\n"
           /\ \A i \in 3..Len(r) : r[i] \notin Whitespace

validate_uri(editor) ==
    /\ trim(text(editor)) # <<>>
    /\ url_pattern_is_match(text(editor))

(* serde_json::from_str::<Value>: a recogniser over positions of the text.  *)
(* Each parse_* takes the position of the first character and gives the     *)
(* position after the last one, or 0 when the text is not accepted.         *)

JsonWs == {" ", "\t", "\n", "\r"}
Digits == {"0", "1", "2", "3", "4", "5", "6", "7", "8", "9"}
HexDigits == Digits \cup {"a", "b", "c", "d", "e", "f", "A", "B", "C", "D", "E", "F"}
ControlChars == {"\t", "\n", "\r", "\f"}
SimpleEscapes == {"\"", "\\", "/", "b", "f", "n", "r", "t"}

RECURSIVE skip_ws(_, _)
skip_ws(s, i) == IF At(s, i) \in JsonWs THEN skip_ws(s, i + 1) ELSE i

RECURSIVE skip_digits(_, _)
skip_digits(s, i) == IF At(s, i) \in Digits THEN skip_digits(s, i + 1) ELSE i

\* parse_ident: the literal lit must stand at position i
parse_ident(s, i, lit) ==
    IF SubSeq(s, i, Min(Len(s), i + Len(lit) - 1)) = lit THEN i + Len(lit) ELSE 0

parse_exponent(s, i) ==
    LET j == IF At(s, i + 1) \in {"+", "-"} THEN i + 2 ELSE i + 1
    IN IF At(s, j) \in Digits THEN skip_digits(s, j) ELSE 0

parse_decimal(s, i) ==
    IF At(s, i + 1) \in Digits
    THEN LET j == skip_digits(s, i + 1)
         IN IF At(s, j) \in {"e", "E"} THEN parse_exponent(s, j) ELSE j
    ELSE 0

\* parse_integer then parse_number, after an optional minus sign
parse_number(s, i) ==
    LET j == IF At(s, i) = "-" THEN i + 1 ELSE i
    IN IF At(s, j) \notin Digits THEN 0
       ELSE IF At(s, j) = "0" /\ At(s, j + 1) \in Digits THEN 0
       ELSE LET k == IF At(s, j) = "0" THEN j + 1 ELSE skip_digits(s, j)
            IN IF At(s, k) = "." THEN parse_decimal(s, k)
               ELSE IF At(s, k) \in {"e", "E"} THEN parse_exponent(s, k)
               ELSE k

\* the characters of a string after its opening quote, from position i
RECURSIVE parse_str_rest(_, _)
parse_str_rest(s, i) ==
    LET c == At(s, i)
    IN IF c = "" THEN 0
       ELSE IF c = "\"" THEN i + 1
       ELSE IF c \in ControlChars THEN 0
       ELSE IF c = "\\"
            THEN (IF At(s, i + 1) \in SimpleEscapes THEN parse_str_rest(s, i + 2)
                  ELSE IF /\ At(s, i + 1) = "u"
                          /\ \A k \in 2..5 : At(s, i + k) \in HexDigits
                       THEN parse_str_rest(s, i + 6)
                  ELSE 0)
       ELSE parse_str_rest(s, i + 1)

RECURSIVE parse_value(_, _)
RECURSIVE parse_elements(_, _)
RECURSIVE parse_members(_, _)

\* the elements of an array from position i, up to and including "]"
parse_elements(s, i) ==
    LET v == parse_value(s, i)
        k == skip_ws(s, v)
    IN IF v = 0 THEN 0
       ELSE IF At(s, k) = "," THEN parse_elements(s, skip_ws(s, k + 1))
       ELSE IF At(s, k) = "]" THEN k + 1
       ELSE 0

\* the members of an object from position i, up to and including "}"
parse_members(s, i) ==
    IF At(s, i) # "\"" THEN 0
    ELSE LET k == parse_str_rest(s, i + 1)
             c == skip_ws(s, k)
         IN IF k = 0 \/ At(s, c) # ":" THEN 0
            ELSE LET v == parse_value(s, skip_ws(s, c + 1))
                     e == skip_ws(s, v)
                 IN IF v = 0 THEN 0
                    ELSE IF At(s, e) = "," THEN parse_members(s, skip_ws(s, e + 1))
                    ELSE IF At(s, e) = "}" THEN e + 1
                    ELSE 0

parse_value(s, i) ==
    LET c == At(s, i)
    IN IF c = "n" THEN parse_ident(s, i, <<"n", "u", "l", "l">>)
       ELSE IF c = "t" THEN parse_ident(s, i, <<"t", "r", "u", "e">>)
       ELSE IF c = "f" THEN parse_ident(s, i, <<"f", "a", "l", "s", "e">>)
       ELSE IF c = "-" \/ c \in Digits THEN parse_number(s, i)
       ELSE IF c = "\"" THEN parse_str_rest(s, i + 1)
       ELSE IF c = "["
            THEN (LET j == skip_ws(s, i + 1)
                  IN IF At(s, j) = "]" THEN j + 1 ELSE parse_elements(s, j))
       ELSE IF c = "{"
            THEN (LET j == skip_ws(s, i + 1)
                  IN IF At(s, j) = "}" THEN j + 1 ELSE parse_members(s, j))
       ELSE 0

\* from_str: one value, with whitespace around it and nothing after it
from_str_is_ok(s) ==
    LET v == parse_value(s, skip_ws(s, 1))
    IN v # 0 /\ skip_ws(s, v) = Len(s) + 1

\* a validator that only looks at the first and last character
validate_json_brackets_only(editor) ==
    LET t == text(editor)
    IN Len(t) >= 2 /\ <<t[1], t[Len(t)]>> \in {<<"{", "}">>, <<"[", "]">>}

validate_json(editor) == from_str_is_ok(text(editor))

----------------------------------------------------------------------------
(* Input events (crossterm::event::Event).                                  *)

NoEvent == [type |-> "None", kind |-> "-", code |-> "-", ch |-> "", mods |-> {}]
\* an event that is not a key event (mouse, resize, ...)
OtherEvent == [type |-> "Mouse", kind |-> "-", code |-> "-", ch |-> "", mods |-> {}]

KeyEvent(kind, code, ch, mods) ==
    [type |-> "Key", kind |-> kind, code |-> code, ch |-> ch, mods |-> mods]

\* a key press of a character key / of another key
CharKey(c, mods) == KeyEvent("Press", "Char", c, mods)
CodeKey(code, mods) == KeyEvent("Press", code, "", mods)

KeyKinds == {"Press", "Release", "Repeat"}
ModifierSets == {{}, {"SHIFT"}, {"ALT"}, {"CONTROL"}}
\* the character keys of the free-running loop
LoopChars == {"a", "q"}
OtherCodes == {"Enter", "Backspace", "Left", "Right", "Up", "Down", "Esc"}

\* Key combinations bound by tui_textarea to word and paragraph operations,
\* which the text-area model above does not cover; the loop is not fed them.
NotCovered(ev) ==
    \/ ev.code = "Backspace" /\ "ALT" \in ev.mods
    \/ ev.code \in {"Left", "Right", "Up", "Down"} /\ "CONTROL" \in ev.mods

Events ==
    {OtherEvent} \cup
    { ev \in ({KeyEvent(k, "Char", c, m) : k \in KeyKinds, c \in LoopChars, m \in ModifierSets}
              \cup
              {KeyEvent(k, code, "", m) : k \in KeyKinds, code \in OtherCodes, m \in ModifierSets})
        : ~NotCovered(ev) }

\* TextArea::input: the default key mappings, for the keys of the model.
\* Only Ctrl and Alt are read from the modifiers; Shift is not.
TextArea_input(ta, key) ==
    LET ctrl == "CONTROL" \in key.mods
        alt == "ALT" \in key.mods
        plain == ~ctrl /\ ~alt
        ctrlChar(c) == key.code = "Char" /\ key.ch = c /\ ctrl /\ ~alt
    IN IF key.code = "Enter" \/ ctrlChar("m")
          \/ (key.code = "Char" /\ key.ch \in {"\n", "\r"} /\ plain)
       THEN insert_newline(ta)
       ELSE IF key.code = "Char" /\ plain THEN insert_char(ta, key.ch)
       ELSE IF ctrlChar("h") \/ (key.code = "Backspace" /\ plain) THEN delete_char(ta)
       ELSE IF ctrlChar("n") \/ (key.code = "Down" /\ plain) THEN move_cursor(ta, "Down")
       ELSE IF ctrlChar("p") \/ (key.code = "Up" /\ plain) THEN move_cursor(ta, "Up")
       ELSE IF ctrlChar("f") \/ (key.code = "Right" /\ plain) THEN move_cursor(ta, "Forward")
       ELSE IF ctrlChar("b") \/ (key.code = "Left" /\ plain) THEN move_cursor(ta, "Back")
       ELSE IF ctrlChar("a") THEN move_cursor(ta, "Head")
       ELSE ta

----------------------------------------------------------------------------
(* App::run (src/main.rs 141-192), one key press.                           *)

\* the routing with the payload index ignored: always the first payload editor
route_input_first_payload(mode, index, uri, payloads, key) ==
    IF mode = "PayloadEditing"
    THEN [uri_editor |-> uri,
          payload_editors |->
              [payloads EXCEPT ![1].text_area = TextArea_input(@, key)]]
    ELSE IF mode = "UriEditing"
    THEN [uri_editor |-> [uri EXCEPT !.text_area = TextArea_input(@, key)],
          payload_editors |-> payloads]
    ELSE [uri_editor |-> uri, payload_editors |-> payloads]

\* the routing with the catch-all arm sending the key to the URI editor
route_input_ungated(mode, index, uri, payloads, key) ==
    IF mode = "PayloadEditing"
    THEN [uri_editor |-> uri,
          payload_editors |->
              [payloads EXCEPT ![index + 1].text_area = TextArea_input(@, key)]]
    ELSE [uri_editor |-> [uri EXCEPT !.text_area = TextArea_input(@, key)],
          payload_editors |-> payloads]

\* lines 156-166: the key goes to the text area the mode addresses
route_input(mode, index, uri, payloads, key) ==
    IF mode = "PayloadEditing"
    THEN [uri_editor |-> uri,
          payload_editors |->
              [payloads EXCEPT ![index + 1].text_area = TextArea_input(@, key)]]
    ELSE IF mode = "UriEditing"
    THEN [uri_editor |-> [uri EXCEPT !.text_area = TextArea_input(@, key)],
          payload_editors |-> payloads]
    ELSE [uri_editor |-> uri, payload_editors |-> payloads]

\* the dispatch with the arrows honoured in every mode
dispatch_ungated(mode, index, titles, key) ==
    LET same == [input_mode |-> mode, req_tab_index |-> index, quit |-> FALSE]
    IN IF key.mods = {}
       THEN (IF key.code = "Right"
             THEN [same EXCEPT !.req_tab_index = next_payload(index, titles)]
             ELSE IF key.code = "Left"
             THEN [same EXCEPT !.req_tab_index = previous_payload(index, titles)]
             ELSE same)
       ELSE IF key.mods = {"ALT"}
       THEN (IF key.code = "Char" /\ key.ch = "q"
             THEN [same EXCEPT !.quit = TRUE] ELSE same)
       ELSE IF key.mods = {"SHIFT"}
       THEN (IF key.code = "Down" THEN [same EXCEPT !.input_mode = InputMode_next(mode)]
             ELSE IF key.code = "Up"
             THEN [same EXCEPT !.input_mode = InputMode_previous(mode)]
             ELSE same)
       ELSE same

\* the dispatch with 'q' ending the loop under any modifier
dispatch_quit_any_modifier(mode, index, titles, key) ==
    LET same == [input_mode |-> mode, req_tab_index |-> index, quit |-> FALSE]
    IN IF key.code = "Char" /\ key.ch = "q"
       THEN [same EXCEPT !.quit = TRUE]
       ELSE IF key.mods = {}
       THEN (IF mode = "Normal"
             THEN (IF key.code = "Right"
                   THEN [same EXCEPT !.req_tab_index = next_payload(index, titles)]
                   ELSE IF key.code = "Left"
                   THEN [same EXCEPT !.req_tab_index = previous_payload(index, titles)]
                   ELSE same)
             ELSE same)
       ELSE IF key.mods = {"SHIFT"}
       THEN (IF key.code = "Down" THEN [same EXCEPT !.input_mode = InputMode_next(mode)]
             ELSE IF key.code = "Up"
             THEN [same EXCEPT !.input_mode = InputMode_previous(mode)]
             ELSE same)
       ELSE same

\* the dispatch with Shift+Down also moving to the next tab
dispatch_shift_moves_tab(mode, index, titles, key) ==
    LET same == [input_mode |-> mode, req_tab_index |-> index, quit |-> FALSE]
    IN IF key.mods = {}
       THEN (IF mode = "Normal"
             THEN (IF key.code = "Right"
                   THEN [same EXCEPT !.req_tab_index = next_payload(index, titles)]
                   ELSE IF key.code = "Left"
                   THEN [same EXCEPT !.req_tab_index = previous_payload(index, titles)]
                   ELSE same)
             ELSE same)
       ELSE IF key.mods = {"ALT"}
       THEN (IF key.code = "Char" /\ key.ch = "q"
             THEN [same EXCEPT !.quit = TRUE] ELSE same)
       ELSE IF key.mods = {"SHIFT"}
       THEN (IF key.code = "Down"
             THEN [same EXCEPT !.input_mode = InputMode_next(mode),
                               !.req_tab_index = next_payload(index, titles)]
             ELSE IF key.code = "Up"
             THEN [same EXCEPT !.input_mode = InputMode_previous(mode)]
             ELSE same)
       ELSE same

\* the dispatch with Shift+Down and Shift+Up honoured in Normal mode only
dispatch_shift_only_in_normal(mode, index, titles, key) ==
    LET same == [input_mode |-> mode, req_tab_index |-> index, quit |-> FALSE]
    IN IF key.mods = {}
       THEN (IF mode = "Normal"
             THEN (IF key.code = "Right"
                   THEN [same EXCEPT !.req_tab_index = next_payload(index, titles)]
                   ELSE IF key.code = "Left"
                   THEN [same EXCEPT !.req_tab_index = previous_payload(index, titles)]
                   ELSE same)
             ELSE same)
       ELSE IF key.mods = {"ALT"}
       THEN (IF key.code = "Char" /\ key.ch = "q"
             THEN [same EXCEPT !.quit = TRUE] ELSE same)
       ELSE IF key.mods = {"SHIFT"} /\ mode = "Normal"
       THEN (IF key.code = "Down" THEN [same EXCEPT !.input_mode = InputMode_next(mode)]
             ELSE IF key.code = "Up"
             THEN [same EXCEPT !.input_mode = InputMode_previous(mode)]
             ELSE same)
       ELSE same

\* lines 168-188: the match on key.modifiers
dispatch(mode, index, titles, key) ==
    LET same == [input_mode |-> mode, req_tab_index |-> index, quit |-> FALSE]
    IN IF key.mods = {}
       THEN (IF mode = "Normal"
             THEN (IF key.code = "Right"
                   THEN [same EXCEPT !.req_tab_index = next_payload(index, titles)]
                   ELSE IF key.code = "Left"
                   THEN [same EXCEPT !.req_tab_index = previous_payload(index, titles)]
                   ELSE same)
             ELSE same)
       ELSE IF key.mods = {"ALT"}
       THEN (IF key.code = "Char" /\ key.ch = "q"
             THEN [same EXCEPT !.quit = TRUE] ELSE same)
       ELSE IF key.mods = {"SHIFT"}
       THEN (IF key.code = "Down" THEN [same EXCEPT !.input_mode = InputMode_next(mode)]
             ELSE IF key.code = "Up"
             THEN [same EXCEPT !.input_mode = InputMode_previous(mode)]
             ELSE same)
       ELSE same

\* the test without the check of the kind
IsKeyPress_any_kind(ev) == ev.type = "Key"

\* lines 154-155: only a key event of kind Press is acted on
IsKeyPress(ev) == ev.type = "Key" /\ ev.kind = "Press"

\* the editors after the event ev has been handled in the current state
EditorsAfter(ev) ==
    IF IsKeyPress(ev)
    THEN route_input(input_mode, req_tab_index, uri_editor, payload_editors, ev)
    ELSE [uri_editor |-> uri_editor, payload_editors |-> payload_editors]

TextLen(editor) == Len(text(editor))

TotalLen(uri, payloads) ==
    TextLen(uri) + TextLen(payloads[1]) + TextLen(payloads[2])

\* a rendering pass that also puts the cursor of the URI editor at the origin
Render_resets_cursor ==
    /\ pc = "draw"
    /\ uri_editor' =
           [uri_editor EXCEPT !.text_area.block =
                IF input_mode = "UriEditing" THEN "Cyan" ELSE "White",
                              !.text_area.cursor = <<0, 0>>]
    /\ payload_editors' =
           [payload_editors EXCEPT ![req_tab_index + 1].text_area.block =
                IF input_mode = "PayloadEditing"
                THEN (IF validate_json(payload_editors[req_tab_index + 1])
                      THEN "Cyan" ELSE "Red")
                ELSE "White"]
    /\ pc' = "read"
    /\ UNCHANGED <<input_mode, req_tab_index, main_index, payload_titles, event>>
    /\ UNCHANGED <<tabVars, navVars, probeVars, scriptVars, uri_valid, reachVars>>

\* App::ui (lines 194-293): sets the blocks of the URI editor and of the
\* active payload editor
Render ==
    /\ pc = "draw"
    /\ uri_editor' =
           [uri_editor EXCEPT !.text_area.block =
                IF input_mode = "UriEditing" THEN "Cyan" ELSE "White"]
    /\ payload_editors' =
           [payload_editors EXCEPT ![req_tab_index + 1].text_area.block =
                IF input_mode = "PayloadEditing"
                THEN (IF validate_json(payload_editors[req_tab_index + 1])
                      THEN "Cyan" ELSE "Red")
                ELSE "White"]
    /\ pc' = "read"
    /\ UNCHANGED <<input_mode, req_tab_index, main_index, payload_titles, event>>
    /\ UNCHANGED <<tabVars, navVars, probeVars, scriptVars, uri_valid, reachVars>>

\* terminal.draw(..)? and event::read()? : an I/O error ends run() with Err
IoError ==
    /\ pc \in {"draw", "read"}
    /\ pc' = "error"
    /\ UNCHANGED <<input_mode, req_tab_index, main_index, payload_titles,
                   uri_editor, payload_editors, event>>
    /\ UNCHANGED <<tabVars, navVars, probeVars, scriptVars, uri_valid, reachVars>>

\* event::read() returns ev (line 153)
Read(ev) ==
    /\ pc = "read"
    /\ event' = ev
    /\ pc' = "handle"
    /\ UNCHANGED <<input_mode, req_tab_index, main_index, payload_titles,
                   uri_editor, payload_editors>>
    /\ UNCHANGED <<tabVars, navVars, uri_valid>>

\* lines 154-190: the event read is handled
Handle ==
    /\ pc = "handle"
    /\ IF IsKeyPress(event)
       THEN LET r == route_input(input_mode, req_tab_index, uri_editor,
                                 payload_editors, event)
                d == dispatch(input_mode, req_tab_index, payload_titles, event)
            IN /\ uri_editor' = r.uri_editor
               /\ payload_editors' = r.payload_editors
               /\ input_mode' = d.input_mode
               /\ req_tab_index' = d.req_tab_index
               /\ pc' = IF d.quit THEN "done" ELSE "draw"
       ELSE /\ UNCHANGED <<uri_editor, payload_editors, input_mode, req_tab_index>>
            /\ pc' = "draw"
    /\ event' = NoEvent
    /\ UNCHANGED <<main_index, payload_titles>>
    /\ UNCHANGED <<tabVars, navVars, scriptVars, uri_valid>>

\* the loop reads any event that keeps the text within MaxText
ReadEvent ==
    /\ pc = "read"
    /\ \E ev \in Events :
          /\ TotalLen(EditorsAfter(ev).uri_editor,
                      EditorsAfter(ev).payload_editors) <= MaxText
          /\ Read(ev)
    /\ UNCHANGED <<probeVars, scriptVars, reachVars>>

HandleEvent == Handle /\ UNCHANGED <<probeVars, reachVars>>

\* values of the harness variables where a harness is not running
TabIdle == tab_kind = "none" /\ tab_trace = <<>> /\ tab_ops = <<>>
NavIdle == nav_trace = <<>> /\ nav_ops = <<>>
ProbeIdle == snap = <<>> /\ snap_left = FALSE
ScriptIdle == script = <<>> /\ typed = <<>>
ReachIdle == goal = <<>>

\* State::new and App::new (lines 65-72, 133-138)
AppInit ==
    /\ input_mode = "UriEditing"
    /\ req_tab_index = 0
    /\ main_index = 0
    /\ payload_titles = <<"Headers", "Body">>
    /\ uri_editor = Editor_default("uri")
    /\ payload_editors = <<Editor_default("headers"), Editor_default("body")>>
    /\ pc = "draw"
    /\ event = NoEvent

Init ==
    /\ AppInit
    /\ TabIdle /\ NavIdle /\ ProbeIdle /\ ScriptIdle /\ ReachIdle
    /\ uri_valid = <<>>

Next == Render \/ IoError \/ ReadEvent \/ HandleEvent

Spec == Init /\ [][Next]_vars

----------------------------------------------------------------------------
(* The Tab implementations called on their own: next() and previous()       *)
(* applied in any order to any variant, the values recorded.                *)

tab_next(kind, v) == IF kind = "InputMode" THEN InputMode_next(v) ELSE AppMode_next(v)

tab_previous(kind, v) ==
    IF kind = "InputMode" THEN InputMode_previous(v) ELSE AppMode_previous(v)

Last(s) == s[Len(s)]

TabInit ==
    /\ AppInit /\ NavIdle /\ ProbeIdle /\ ScriptIdle /\ ReachIdle
    /\ uri_valid = <<>>
    /\ tab_kind \in {"InputMode", "AppMode"}
    /\ \E v \in (IF tab_kind = "InputMode" THEN InputModes ELSE AppModes) :
          tab_trace = <<v>>
    /\ tab_ops = <<>>

TabNext ==
    /\ Len(tab_ops) < MaxTabOps
    /\ tab_trace' = Append(tab_trace, tab_next(tab_kind, Last(tab_trace)))
    /\ tab_ops' = Append(tab_ops, "next")
    /\ UNCHANGED <<tab_kind, appVars, navVars, probeVars, scriptVars, uri_valid, reachVars>>

TabPrevious ==
    /\ Len(tab_ops) < MaxTabOps
    /\ tab_trace' = Append(tab_trace, tab_previous(tab_kind, Last(tab_trace)))
    /\ tab_ops' = Append(tab_ops, "previous")
    /\ UNCHANGED <<tab_kind, appVars, navVars, probeVars, scriptVars, uri_valid, reachVars>>

TabStep == TabNext \/ TabPrevious

SpecTab == TabInit /\ [][TabStep]_vars

----------------------------------------------------------------------------
(* State::next_payload and State::previous_payload called on their own, for *)
(* every tab count up to MaxTabs and every starting index.                   *)

AllTitles == <<"Headers", "Body", "Params", "Auth", "Cookies", "Query">>

NavInit ==
    /\ input_mode = "UriEditing"
    /\ main_index = 0
    /\ \E k \in 1..MaxTabs : payload_titles = SubSeq(AllTitles, 1, k)
    /\ req_tab_index \in 0..(Len(payload_titles) - 1)
    /\ uri_editor = Editor_default("uri")
    /\ payload_editors = <<Editor_default("headers"), Editor_default("body")>>
    /\ pc = "draw"
    /\ event = NoEvent
    /\ TabIdle /\ ProbeIdle /\ ScriptIdle /\ ReachIdle
    /\ uri_valid = <<>>
    /\ nav_trace = <<req_tab_index>>
    /\ nav_ops = <<>>

NavNext ==
    /\ Len(nav_ops) < MaxNavOps
    /\ req_tab_index' = next_payload(req_tab_index, payload_titles)
    /\ nav_trace' = Append(nav_trace, req_tab_index')
    /\ nav_ops' = Append(nav_ops, "next")
    /\ UNCHANGED <<input_mode, main_index, payload_titles, uri_editor,
                   payload_editors, pc, event>>
    /\ UNCHANGED <<tabVars, probeVars, scriptVars, uri_valid, reachVars>>

NavPrevious ==
    /\ Len(nav_ops) < MaxNavOps
    /\ req_tab_index' = previous_payload(req_tab_index, payload_titles)
    /\ nav_trace' = Append(nav_trace, req_tab_index')
    /\ nav_ops' = Append(nav_ops, "previous")
    /\ UNCHANGED <<input_mode, main_index, payload_titles, uri_editor,
                   payload_editors, pc, event>>
    /\ UNCHANGED <<tabVars, probeVars, scriptVars, uri_valid, reachVars>>

NavStep == NavNext \/ NavPrevious

SpecNav == NavInit /\ [][NavStep]_vars

----------------------------------------------------------------------------
(* The loop with a probe: at some point where a field is addressed, the     *)
(* state is recorded; from then on only Shift+Down and Shift+Up are         *)
(* pressed.                                                                 *)

ShiftDown == CodeKey("Down", {"SHIFT"})
ShiftUp == CodeKey("Up", {"SHIFT"})

ProbeRecord ==
    /\ pc = "read"
    /\ snap = <<>>
    /\ input_mode # "Normal"
    /\ snap' = <<[input_mode |-> input_mode, req_tab_index |-> req_tab_index,
                  uri_editor |-> uri_editor, payload_editors |-> payload_editors]>>
    /\ UNCHANGED <<snap_left, appVars, tabVars, navVars, scriptVars, uri_valid,
                   reachVars>>

ProbeRead ==
    /\ pc = "read"
    /\ IF snap = <<>>
       THEN \E ev \in Events :
               /\ TotalLen(EditorsAfter(ev).uri_editor,
                           EditorsAfter(ev).payload_editors) <= MaxText
               /\ Read(ev)
       ELSE \E ev \in {ShiftDown, ShiftUp} : Read(ev)
    /\ UNCHANGED <<probeVars, scriptVars, reachVars>>

ProbeHandle ==
    /\ Handle
    /\ snap' = snap
    /\ snap_left' = (snap_left \/ (snap # <<>> /\ input_mode' # snap[1].input_mode))
    /\ UNCHANGED reachVars

ProbeNext == Render \/ ProbeRecord \/ ProbeRead \/ ProbeHandle

SpecProbe == Init /\ [][ProbeNext]_vars

----------------------------------------------------------------------------
(* The loop fed a script of key presses: the spec's end-to-end scenario and *)
(* variants of it.                                                          *)

RECURSIVE TypeAll(_)
\* the unmodified character key presses that type the text t
TypeAll(t) == IF t = <<>> THEN <<>> ELSE <<CharKey(t[1], {})>> \o TypeAll(Tail(t))

Txt_http_a == <<"h","t","t","p",":","/","/","a">>
Txt_http_ab == <<"h","t","t","p",":","/","/","a","b">>
Txt_braces == <<"{", "}">>
Txt_obj_quoted == <<"{", "\"", "a", "\"", ":", "1", "}">>
Txt_obj_unquoted == <<"{", "a", ":", "1", "}">>

ScriptUriTexts == {<<>>, Txt_http_a, Txt_http_ab}
ScriptPayloadTexts == {<<>>, Txt_braces, Txt_obj_quoted, Txt_obj_unquoted}

\* type u, Shift+Down twice, type p, then Left and Right
ScenarioScript(u, p) ==
    TypeAll(u) \o <<ShiftDown, ShiftDown>> \o TypeAll(p)
    \o <<CodeKey("Left", {}), CodeKey("Right", {})>>

Scripts == { ScenarioScript(u, p) : u \in ScriptUriTexts, p \in ScriptPayloadTexts }

ScriptInit ==
    /\ AppInit
    /\ TabIdle /\ NavIdle /\ ProbeIdle /\ ReachIdle
    /\ uri_valid = <<>>
    /\ script \in Scripts
    /\ typed = <<>>

ScriptRead ==
    /\ pc = "read"
    /\ script # <<>>
    /\ Read(Head(script))
    /\ script' = Tail(script)
    /\ typed' = Append(typed, Head(script))
    /\ UNCHANGED <<probeVars, reachVars>>

ScriptNext == Render \/ ScriptRead \/ HandleEvent

SpecE2E == ScriptInit /\ [][ScriptNext]_vars

----------------------------------------------------------------------------
(* The loop with a goal: after any run of the free loop a mode and a tab    *)
(* are chosen, and from then on the key presses of a path to them are       *)
(* delivered: Shift+Down to change the mode, Right in Normal to change the  *)
(* tab.                                                                     *)

\* Characters the free loop of this harness may have typed before the goal
\* is chosen.
MaxReachText == 2

RECURSIVE Times(_, _)
\* the sequence of n times x
Times(x, n) == IF n = 0 THEN <<>> ELSE <<x>> \o Times(x, n - 1)

\* the number of Shift+Down presses that lead from mode a to mode b
DownsBetween(a, b) == (InputMode_as_int(b) - InputMode_as_int(a) + 3) % 3

\* the key presses from mode m0 on tab i0 to mode m on tab i, with k tabs
PathTo(m0, i0, m, i, k) ==
    IF i = i0
    THEN Times(ShiftDown, DownsBetween(m0, m))
    ELSE Times(ShiftDown, DownsBetween(m0, "Normal"))
         \o Times(CodeKey("Right", {}), (i - i0 + k) % k)
         \o Times(ShiftDown, DownsBetween("Normal", m))

\* the free loop, before a goal is chosen
ReachFreeRead ==
    /\ pc = "read"
    /\ goal = <<>>
    /\ \E ev \in Events :
          /\ TotalLen(EditorsAfter(ev).uri_editor,
                      EditorsAfter(ev).payload_editors) <= MaxReachText
          /\ Read(ev)
    /\ UNCHANGED <<probeVars, scriptVars, reachVars>>

\* a goal is chosen where the loop waits for the next event
ReachPick ==
    /\ pc = "read"
    /\ goal = <<>>
    /\ \E m \in InputModes, i \in 0..(Len(payload_titles) - 1) :
          /\ goal' = <<[from_mode |-> input_mode, from_index |-> req_tab_index,
                        mode |-> m, index |-> i]>>
          /\ script' = PathTo(input_mode, req_tab_index, m, i, Len(payload_titles))
    /\ typed' = <<>>
    /\ UNCHANGED <<appVars, tabVars, navVars, probeVars, uri_valid>>

\* the next key press of the path is read
ReachRead == goal # <<>> /\ ScriptRead

\* the steps of the loop once a goal is chosen
ReachGoalStep == goal # <<>> /\ (Render \/ ReachRead \/ HandleEvent)

ReachNext == Render \/ ReachFreeRead \/ ReachPick \/ ReachRead \/ HandleEvent

\* the keys of the path are pressed and the loop handles them
SpecReach == Init /\ [][ReachNext]_vars /\ WF_vars(ReachGoalStep)

----------------------------------------------------------------------------
(* validate_uri called on a URI editor holding any text of a bounded set.   *)

MaxTail == 2
TailChars == {"a", "/", ".", " ", "\n"}

RECURSIVE SeqsUpTo(_, _)
\* the sequences over S of length at most n
SeqsUpTo(S, n) ==
    IF n = 0 THEN {<<>>}
    ELSE LET shorter == SeqsUpTo(S, n - 1)
         IN shorter \cup {Append(t, c) : t \in shorter, c \in S}

Txt_spaces == <<" ", " ", " ">>
Txt_notaurl == <<"n","o","t","a","u","r","l">>
Txt_example == <<"h","t","t","p",":","/","/","e","x","a","m","p","l","e",".","c","o","m","/","x">>
Txt_ftp_host == <<"f","t","p",":","/","/","h","o","s","t","/","p","a","t","h">>

UriHeads ==
    {<<>>, <<"h","t","t","p">>, <<"h","t","t","p","s">>, <<"f","t","p">>,
     <<"h","t","t">>, <<" ","h","t","t","p">>, <<"x","f","t","p">>}
UriSeparators == {<<":", "/", "/">>, <<":", "/">>, <<>>}

UriTexts ==
    {<<>>, Txt_spaces, Txt_notaurl, Txt_example, Txt_ftp_host}
    \cup {h \o sep \o t : h \in UriHeads, sep \in UriSeparators,
                          t \in SeqsUpTo(TailChars, MaxTail)}

RECURSIVE SplitLines(_)
\* the lines of the text t, split at every line feed
SplitLines(t) ==
    IF \A i \in 1..Len(t) : t[i] # "\n" THEN <<t>>
    ELSE LET i == CHOOSE j \in 1..Len(t) :
                     t[j] = "\n" /\ \A k \in 1..(j - 1) : t[k] # "\n"
         IN <<SubSeq(t, 1, i - 1)>> \o SplitLines(SubSeq(t, i + 1, Len(t)))

\* the editor after the text t has been typed into it (Enter for a line feed)
EditorHolding(title, t) ==
    LET ls == SplitLines(t)
    IN [title |-> title,
        text_area |-> [lines |-> ls,
                       cursor |-> <<Len(ls) - 1, Len(ls[Len(ls)])>>,
                       block |-> "none"]]

ValidateInit ==
    /\ input_mode = "UriEditing"
    /\ req_tab_index = 0
    /\ main_index = 0
    /\ payload_titles = <<"Headers", "Body">>
    /\ \E t \in UriTexts : uri_editor = EditorHolding("uri", t)
    /\ payload_editors = <<Editor_default("headers"), Editor_default("body")>>
    /\ pc = "draw"
    /\ event = NoEvent
    /\ TabIdle /\ NavIdle /\ ProbeIdle /\ ScriptIdle /\ ReachIdle
    /\ uri_valid = <<>>

CallValidateUri ==
    /\ uri_valid = <<>>
    /\ uri_valid' = <<validate_uri(uri_editor)>>
    /\ UNCHANGED <<appVars, tabVars, navVars, probeVars, scriptVars, reachVars>>

SpecValidate == ValidateInit /\ [][CallValidateUri]_vars

----------------------------------------------------------------------------
(* Properties.                                                              *)

\* C1 (SpecTab): for InputMode, next() follows the order UriEditing -> Normal
\* -> PayloadEditing -> UriEditing, three next() in a row return to the
\* starting mode, and next() followed by previous(), or previous() followed
\* by next(), returns to the starting mode.
C1_InputModeCycle ==
    tab_kind = "InputMode" =>
        /\ \A i \in 1..Len(tab_ops) :
              tab_ops[i] = "next" =>
                  <<tab_trace[i], tab_trace[i + 1]>> \in
                      {<<"UriEditing", "Normal">>, <<"Normal", "PayloadEditing">>,
                       <<"PayloadEditing", "UriEditing">>}
        /\ \A i \in 1..(Len(tab_ops) - 2) :
              (\A j \in i..(i + 2) : tab_ops[j] = "next")
                  => tab_trace[i + 3] = tab_trace[i]
        /\ \A i \in 1..(Len(tab_ops) - 1) :
              {tab_ops[i], tab_ops[i + 1]} = {"next", "previous"}
                  => tab_trace[i + 2] = tab_trace[i]

C1_Witness ==
    /\ tab_kind = "InputMode"
    /\ tab_ops = <<"next", "next", "next", "previous">>
    /\ tab_trace = <<"PayloadEditing", "UriEditing", "Normal", "PayloadEditing", "Normal">>

\* C2 (SpecNav): with k tabs, k calls of next_payload() in a row return
\* req_tab_index to the index they started from, and previous_payload() at
\* index 0 gives k - 1.
C2_TabCycle ==
    LET k == Len(payload_titles)
    IN /\ \A i \in 1..(Len(nav_ops) - k + 1) :
             (\A j \in i..(i + k - 1) : nav_ops[j] = "next")
                 => nav_trace[i + k] = nav_trace[i]
       /\ \A i \in 1..Len(nav_ops) :
             (nav_ops[i] = "previous" /\ nav_trace[i] = 0)
                 => nav_trace[i + 1] = k - 1

C2_Witness ==
    /\ Len(payload_titles) = 3
    /\ nav_ops = <<"next", "next", "next", "previous">>
    /\ nav_trace = <<0, 1, 2, 0, 2>>

\* C3 (Spec): req_tab_index changes only in the handling of a Left or Right
\* key press without modifier while the mode is Normal; in UriEditing and
\* PayloadEditing no step changes it.
C3_TabChangeOnlyInNormal ==
    [][ req_tab_index' # req_tab_index =>
            /\ pc = "handle"
            /\ IsKeyPress(event)
            /\ input_mode = "Normal"
            /\ event.mods = {}
            /\ event.code \in {"Left", "Right"} ]_vars

\* a Right press about to be handled in PayloadEditing, the tab having been
\* moved to Body earlier
C3_Witness ==
    /\ pc = "handle"
    /\ event = CodeKey("Right", {})
    /\ input_mode = "PayloadEditing"
    /\ req_tab_index = 1

\* the text areas that the step changes (content, cursor or block)
ChangedFields ==
    {f \in {<<"uri", 0>>} : uri_editor' # uri_editor}
    \cup {<<"payload", i>> : i \in {j \in 0..1 : payload_editors'[j + 1] # payload_editors[j + 1]}}

\* C4 (Spec): the handling of an event changes at most one text area; in
\* UriEditing none but the URI editor, in PayloadEditing none but
\* payload_editors[req_tab_index].
C4_SingleTarget ==
    [][ pc = "handle" =>
            /\ Cardinality(ChangedFields) <= 1
            /\ input_mode = "UriEditing" => ChangedFields \subseteq {<<"uri", 0>>}
            /\ input_mode = "PayloadEditing"
                   => ChangedFields \subseteq {<<"payload", req_tab_index>>} ]_vars

\* a character about to be typed into the Body editor while the URI editor
\* holds text
C4_Witness ==
    /\ pc = "handle"
    /\ event = CharKey("a", {})
    /\ input_mode = "PayloadEditing"
    /\ req_tab_index = 1
    /\ text(uri_editor) # <<>>
    /\ text(payload_editors[1]) = <<>>

\* C5 (Spec): the handling of an event while the mode is Normal leaves the
\* lines of the URI editor and of every payload editor as they were.
C5_NormalNoEdit ==
    [][ (pc = "handle" /\ input_mode = "Normal") =>
            /\ uri_editor'.text_area.lines = uri_editor.text_area.lines
            /\ \A i \in 1..2 :
                  payload_editors'[i].text_area.lines = payload_editors[i].text_area.lines ]_vars

\* a Backspace about to be handled in Normal mode while the URI editor holds
\* text
C5_Witness ==
    /\ pc = "handle"
    /\ event = CodeKey("Backspace", {})
    /\ input_mode = "Normal"
    /\ text(uri_editor) # <<>>

\* the editor the mode addresses
TargetEditor(mode, index, uri, payloads) ==
    IF mode = "UriEditing" THEN uri ELSE payloads[index + 1]

\* C6 (SpecProbe): after Shift+Down / Shift+Up presses only, once the mode
\* has been left and is the recorded mode again, the addressed field has the
\* lines and the cursor it had when the state was recorded.
C6_FocusRoundTripPreservesField ==
    (snap # <<>> /\ snap_left /\ input_mode = snap[1].input_mode) =>
        LET now == TargetEditor(input_mode, req_tab_index, uri_editor, payload_editors)
            was == TargetEditor(snap[1].input_mode, snap[1].req_tab_index,
                                snap[1].uri_editor, snap[1].payload_editors)
        IN /\ now.text_area.lines = was.text_area.lines
           /\ now.text_area.cursor = was.text_area.cursor

\* C7 (SpecE2E): after h,t,t,p,:,/,/,a have been typed from the initial
\* state, the URI text is "http://a" and validate_uri is true.
C7_EndToEndUri ==
    (typed = TypeAll(Txt_http_a) /\ pc # "handle") =>
        /\ text(uri_editor) = Txt_http_a
        /\ validate_uri(uri_editor)

HasWhitespace(t) == \E i \in 1..Len(t) : t[i] \in Whitespace

\* a scheme, "://", then a non-empty segment without whitespace
SchemeAndSegment(t) ==
    \E sch \in UrlSchemes :
        LET p == sch \o <<":", "/", "/">>
        IN /\ StartsWith(t, p)
           /\ Len(t) > Len(p)
           /\ ~HasWhitespace(SubSeq(t, Len(p) + 1, Len(t)))

\* C8 (SpecValidate): validate_uri is true exactly for a scheme http, https
\* or ftp, "://" and a non-empty segment without whitespace; it is false for
\* every text that contains whitespace.
C8_UriPatternIff ==
    uri_valid # <<>> =>
        /\ uri_valid[1] <=> SchemeAndSegment(text(uri_editor))
        /\ HasWhitespace(text(uri_editor)) => ~uri_valid[1]

\* C9 (SpecValidate): validate_uri is false for "", "   " and "notaurl", true
\* for "http://example.com/x" and "ftp://host/path", and false for every text
\* whose trimmed form is empty or that does not begin with http://, https://
\* or ftp://.
C9_UriRejections ==
    uri_valid # <<>> =>
        LET t == text(uri_editor)
        IN /\ t \in {<<>>, Txt_spaces, Txt_notaurl} => ~uri_valid[1]
           /\ t \in {Txt_example, Txt_ftp_host} => uri_valid[1]
           /\ (\/ trim(t) = <<>>
               \/ ~\E sch \in UrlSchemes : StartsWith(t, sch \o <<":", "/", "/">>))
                  => ~uri_valid[1]

C9_Witness ==
    /\ uri_valid = <<TRUE>>
    /\ text(uri_editor) = Txt_ftp_host

\* the scenario up to and including the closing brace
ScenarioThroughBraces ==
    TypeAll(Txt_http_a) \o <<ShiftDown, ShiftDown>> \o TypeAll(Txt_braces)

ActiveEditor == payload_editors[req_tab_index + 1]

\* C10 (SpecE2E): validate_json is false for an empty payload editor and for
\* {a:1}, true for {} and {"a":1}; after the scenario has typed { and } in
\* PayloadEditing the active payload editor holds "{}" and validate_json is
\* true; and the rendering pass draws the active border cyan exactly when
\* validate_json is true.
C10_JsonValidation ==
    /\ \A i \in 1..2 :
          LET e == payload_editors[i]
          IN /\ text(e) \in {<<>>, Txt_obj_unquoted} => ~validate_json(e)
             /\ text(e) \in {Txt_braces, Txt_obj_quoted} => validate_json(e)
    /\ (typed = ScenarioThroughBraces /\ pc # "handle") =>
          /\ input_mode = "PayloadEditing"
          /\ text(ActiveEditor) = Txt_braces
          /\ validate_json(ActiveEditor)
    /\ (pc = "read" /\ input_mode = "PayloadEditing") =>
          ActiveEditor.text_area.block =
              IF validate_json(ActiveEditor) THEN "Cyan" ELSE "Red"

C10_Witness ==
    /\ typed = ScenarioThroughBraces
    /\ pc = "read"
    /\ text(ActiveEditor) = Txt_braces
    /\ ActiveEditor.text_area.block = "Cyan"

\* the lines of the three text areas are the same after the step
LinesUnchanged ==
    /\ uri_editor'.text_area.lines = uri_editor.text_area.lines
    /\ \A i \in 1..2 :
          payload_editors'[i].text_area.lines = payload_editors[i].text_area.lines

\* C11 (Spec): the handling of a key press that carries Shift changes the
\* lines of no text area, and changes the mode only for Shift+Down (to the
\* next mode) and Shift+Up (to the previous mode).
C11_ShiftOnlyCyclesMode ==
    [][ (pc = "handle" /\ event.type = "Key" /\ event.kind = "Press"
         /\ "SHIFT" \in event.mods) =>
            /\ LinesUnchanged
            /\ req_tab_index' = req_tab_index
            /\ input_mode' # input_mode => event.code \in {"Down", "Up"} ]_vars

\* the rows of the dispatch table: the key presses that have an effect
MatchesDispatchRow(mode, ev) ==
    \/ mode = "UriEditing" /\ ev.mods = {} /\ ev.code \in {"Char", "Backspace"}
    \/ mode = "PayloadEditing" /\ ev.mods = {}
          /\ ev.code \in {"Char", "Backspace", "Enter"}
    \/ mode = "Normal" /\ ev.mods = {} /\ ev.code \in {"Left", "Right"}
    \/ ev.mods = {"SHIFT"} /\ ev.code \in {"Down", "Up"}
    \/ ev.mods = {"ALT"} /\ ev.code = "Char" /\ ev.ch = "q"

\* C12 (Spec): the handling of a key press that matches no row of the
\* dispatch table changes neither the mode, nor the tab index, nor the lines
\* or cursor of any text area; so Enter in UriEditing leaves the URI as it is.
C12_UnmatchedKeyIgnored ==
    [][ (pc = "handle" /\ event.type = "Key" /\ event.kind = "Press"
         /\ ~MatchesDispatchRow(input_mode, event)) =>
            /\ input_mode' = input_mode
            /\ req_tab_index' = req_tab_index
            /\ uri_editor' = uri_editor
            /\ payload_editors' = payload_editors ]_vars

\* C13 (Spec): the handling of an event that is not a key event, or of a key
\* event of kind Release or Repeat, changes neither the mode, nor the tab
\* index, nor any editor, and the loop goes on.
C13_OnlyPressActedOn ==
    [][ (pc = "handle"
         /\ (event.type # "Key" \/ event.kind \in {"Release", "Repeat"})) =>
            /\ input_mode' = input_mode
            /\ req_tab_index' = req_tab_index
            /\ uri_editor' = uri_editor
            /\ payload_editors' = payload_editors
            /\ pc' = "draw" ]_vars

\* the release of Alt+q about to be handled in PayloadEditing, the field
\* holding text
C13_Witness ==
    /\ pc = "handle"
    /\ event = KeyEvent("Release", "Char", "q", {"ALT"})
    /\ input_mode = "PayloadEditing"
    /\ text(payload_editors[req_tab_index + 1]) # <<>>

\* C14 (Spec): run() returns Ok exactly when the event handled is a press of
\* Alt+'q', in whatever mode; the handling of any other event goes on with
\* the next iteration, and the only other way out of the loop is the failure
\* of draw or read, which happens outside the handling of an event.
C14_QuitOnlyOnAltQ ==
    [][ /\ pc = "handle" =>
              /\ pc' \in {"done", "draw"}
              /\ pc' = "done" <=> event = CharKey("q", {"ALT"})
        /\ pc' = "done" => pc = "handle"
        /\ pc' = "error" => (pc \in {"draw", "read"} /\ event.type # "Key") ]_vars

\* run() has returned Ok from PayloadEditing on the second tab
C14_Witness ==
    /\ pc = "done"
    /\ input_mode = "PayloadEditing"
    /\ req_tab_index = 1

\* C15 (Spec): in every state of the loop req_tab_index is at least 0 and
\* below the number of payload titles, and there are as many payload editors
\* as titles, so payload_editors[req_tab_index] exists.
C15_TabIndexInRange ==
    /\ req_tab_index \in 0..(Len(payload_titles) - 1)
    /\ Len(payload_editors) = Len(payload_titles)
    /\ (req_tab_index + 1) \in DOMAIN payload_editors

\* the last tab is active in PayloadEditing and its editor holds text, the
\* next rendering pass about to index payload_editors
C15_Witness ==
    /\ req_tab_index = Len(payload_titles) - 1
    /\ input_mode = "PayloadEditing"
    /\ pc = "draw"
    /\ text(payload_editors[req_tab_index + 1]) # <<>>

\* the mode Shift+Down leads to, as the focus cycle is specified
CycleDown(m) ==
    CASE m = "UriEditing" -> "Normal"
      [] m = "Normal" -> "PayloadEditing"
      [] m = "PayloadEditing" -> "UriEditing"

\* C16 (Spec): the loop starts in UriEditing on tab 0 (Headers); the handling
\* of a Shift+Down or Shift+Up press leaves req_tab_index as it is and moves
\* the mode one step along the cycle (so two Shift+Down from the start give
\* PayloadEditing on tab 0); the handling of a Left or Right press, under any
\* modifier, leaves input_mode as it is.
C16_ModeAndTabIndependent ==
    /\ (input_mode = "UriEditing" /\ req_tab_index = 0
        /\ payload_titles[1] = "Headers")
    /\ [][ (pc = "handle" /\ event.type = "Key" /\ event.kind = "Press") =>
              /\ (event.mods = {"SHIFT"} /\ event.code = "Down") =>
                    (req_tab_index' = req_tab_index
                     /\ input_mode' = CycleDown(input_mode))
              /\ (event.mods = {"SHIFT"} /\ event.code = "Up") =>
                    (req_tab_index' = req_tab_index
                     /\ input_mode = CycleDown(input_mode'))
              /\ event.code \in {"Left", "Right"} =>
                    input_mode' = input_mode ]_vars

\* PayloadEditing on tab 0 with every field empty: reached from the start by
\* Shift+Down twice and by nothing shorter
C16_Witness ==
    /\ input_mode = "PayloadEditing"
    /\ req_tab_index = 0
    /\ pc = "draw"
    /\ TotalLen(uri_editor, payload_editors) = 0

\* C17 (Spec): the rendering pass changes neither input_mode, nor
\* req_tab_index, nor the lines or the cursor of the URI editor or of any
\* payload editor.
C17_RenderReadOnly ==
    [][ (pc = "draw" /\ pc' = "read") =>
            /\ input_mode' = input_mode
            /\ req_tab_index' = req_tab_index
            /\ uri_editor'.text_area.lines = uri_editor.text_area.lines
            /\ uri_editor'.text_area.cursor = uri_editor.text_area.cursor
            /\ \A i \in DOMAIN payload_editors :
                  /\ payload_editors'[i].text_area.lines =
                         payload_editors[i].text_area.lines
                  /\ payload_editors'[i].text_area.cursor =
                         payload_editors[i].text_area.cursor
            /\ DOMAIN payload_editors' = DOMAIN payload_editors ]_vars

\* a rendering pass has drawn the second payload editor as invalid JSON while
\* the URI editor holds text with the cursor behind it
C17_Witness ==
    /\ pc = "read"
    /\ input_mode = "PayloadEditing"
    /\ req_tab_index = 1
    /\ payload_editors[2].text_area.block = "Red"
    /\ text(payload_editors[2]) # <<>>
    /\ uri_editor.text_area.cursor # <<0, 0>>

\* C18 (SpecNav): with k tabs and an index i in 0..k-1, previous_payload()
\* gives (i - 1 + k) mod k and next_payload() gives (i + 1) mod k; a call of
\* one followed by a call of the other returns to the index before the two
\* calls, and every index visited is in 0..k-1.
C18_PayloadModuloForm ==
    LET k == Len(payload_titles)
    IN /\ \A i \in 1..Len(nav_ops) :
             /\ nav_ops[i] = "previous" =>
                    nav_trace[i + 1] = (nav_trace[i] - 1 + k) % k
             /\ nav_ops[i] = "next" =>
                    nav_trace[i + 1] = (nav_trace[i] + 1) % k
       /\ \A i \in 1..(Len(nav_ops) - 1) :
             nav_ops[i] # nav_ops[i + 1] => nav_trace[i + 2] = nav_trace[i]
       /\ \A i \in 1..Len(nav_trace) : nav_trace[i] \in 0..(k - 1)
       /\ req_tab_index = nav_trace[Len(nav_trace)]

\* four tabs: previous_payload() at 0 wraps to 3, next_payload() at 3 wraps
\* to 0, and each call undoes the one before it
C18_Witness ==
    /\ Len(payload_titles) = 4
    /\ nav_ops = <<"previous", "next", "next", "previous">>
    /\ nav_trace = <<0, 3, 0, 1, 0>>

\* as_int and to_enum of the enum the harness runs, and its variant count
tab_as_int(kind, v) ==
    IF kind = "InputMode" THEN InputMode_as_int(v) ELSE AppMode_as_int(v)

tab_to_enum(kind, num) ==
    IF kind = "InputMode" THEN InputMode_to_enum(num) ELSE AppMode_to_enum(num)

tab_count(kind) == IF kind = "InputMode" THEN Cardinality(InputModes)
                   ELSE Cardinality(AppModes)

\* C20 (SpecTab): for both enums, to_enum(as_int(x)) = x for every value
\* visited; the value next() returns has the number (as_int(x) + 1) mod n and
\* the value previous() returns has the number (as_int(x) + n - 1) mod n, n
\* the variant count, so the arm of to_enum taken is the literal arm of a
\* number below n and never the catch-all; for AppMode, whose previous() is
\* next(), previous() after next() and next() after previous() return to the
\* starting value, and so does next() twice.
C20_TabImplementations ==
    LET n == tab_count(tab_kind)
    IN /\ \A i \in 1..Len(tab_trace) :
             /\ tab_as_int(tab_kind, tab_trace[i]) \in 0..(n - 1)
             /\ tab_to_enum(tab_kind, tab_as_int(tab_kind, tab_trace[i]))
                    = tab_trace[i]
       /\ \A i \in 1..Len(tab_ops) :
             /\ tab_ops[i] = "next" =>
                    tab_as_int(tab_kind, tab_trace[i + 1])
                        = (tab_as_int(tab_kind, tab_trace[i]) + 1) % n
             /\ tab_ops[i] = "previous" =>
                    tab_as_int(tab_kind, tab_trace[i + 1])
                        = (tab_as_int(tab_kind, tab_trace[i]) + n - 1) % n
       /\ tab_kind = "AppMode" =>
             \A i \in 1..(Len(tab_ops) - 1) : tab_trace[i + 2] = tab_trace[i]

\* AppMode: next(), previous(), next(), next() from Response
C20_Witness ==
    /\ tab_kind = "AppMode"
    /\ tab_ops = <<"next", "previous", "next", "next">>
    /\ tab_trace = <<"Response", "Request", "Response", "Request", "Response">>

\* the goal is reached: the loop waits for the next event in the mode and on
\* the tab chosen, the key presses of the path all handled
GoalReached ==
    /\ goal # <<>>
    /\ script = <<>>
    /\ pc = "read"
    /\ input_mode = goal[1].mode
    /\ req_tab_index = goal[1].index

\* the path is within its bound, and Shift+Down alone (at most twice) when
\* only the mode is to change
PathBounded ==
    goal # <<>> =>
        /\ Len(typed) + Len(script)
               <= 2 + (Len(payload_titles) - 1) + 2
        /\ goal[1].index = goal[1].from_index =>
               /\ Len(typed) + Len(script) <= 2
               /\ \A j \in 1..Len(typed) : typed[j] = ShiftDown
               /\ \A j \in 1..Len(script) : script[j] = ShiftDown
        /\ (script = <<>> /\ pc = "read") => GoalReached

\* a Shift+Down or Shift+Up press handled changes the mode, whatever the
\* fields hold
ShiftChangesMode ==
    (pc = "handle" /\ event \in {ShiftDown, ShiftUp}) => input_mode' # input_mode

\* C19 (SpecReach): from every state the free loop reaches, whatever was
\* typed into the fields, and for every mode and tab chosen as goal, a finite
\* sequence of key presses leads to that mode on that tab: at most two
\* Shift+Down presses when only the mode differs; every Shift+Down or
\* Shift+Up press handled changes the mode; and once the goal is chosen the
\* loop, fed the presses, does reach it.
C19_EveryFocusReachable ==
    /\ []PathBounded
    /\ [][ShiftChangesMode]_vars
    /\ (goal # <<>>) ~> GoalReached

\* from PayloadEditing on tab 1 with text in the URI field, the goal
\* UriEditing on tab 0 has been reached by the longest path
C19_Witness ==
    /\ GoalReached
    /\ goal[1].from_mode = "PayloadEditing" /\ goal[1].from_index = 1
    /\ goal[1].mode = "UriEditing" /\ goal[1].index = 0
    /\ Len(typed) = 2 + (Len(payload_titles) - 1) + 2
    /\ text(uri_editor) # <<>>

====
